---------------------------- MODULE Spec2Model ----------------------------
(***************************************************************************)
(* Model of the price bot of labi-chat: the Chainlink price feed service   *)
(* (lib/chainlink-price-feeds.ts, ChainlinkPriceService) and the scheduler *)
(* that polls it (lib/price-bot.ts, PriceBot).                             *)
(*                                                                         *)
(* Spec     : a PriceBot driven by its public methods, its interval timer  *)
(*            and the completion of its update cycles.                     *)
(* SpecFeed : one call of ChainlinkPriceService.getAllPrices, its six      *)
(*            oracle reads interleaved with updates of the oracle.         *)
(***************************************************************************)
EXTENDS Integers, Sequences, FiniteSets, TLC

VARIABLES
    \* ---- PriceBot (lib/price-bot.ts) ----
    config,          \* this.config: [intervalMinutes, enabled, symbols]
    intervalId,      \* this.intervalId: 0 is null, otherwise a timer handle
    previousPrices,  \* this.previousPrices: symbol -> PriceData or Null
    \* ---- the JavaScript runtime around the bot ----
    timers,          \* the armed setInterval timers: [id, period, due]
    now,             \* Date.now(), in minutes
    cycles,          \* the sendPriceUpdate calls made so far, by number:
                     \* what made the call, and "fetching" or "done"
    last,            \* the latest event: a method call, a timer tick or an
                     \* update cycle running to its end
    emitted,         \* the messages that event passed to messageCallback
    \* ---- one getAllPrices call followed read by read (SpecFeed) ----
    oracle,          \* latestRoundData of each feed contract
    updates,         \* number of oracle updates so far
    reads,           \* what each of the six oracle reads returned
    fpc,             \* "idle", "reading" or "done"
    allPrices        \* the list getAllPrices resolved to

botVars == <<config, intervalId, previousPrices, timers, now, cycles, last,
             emitted>>
feedVars == <<oracle, updates, reads, fpc, allPrices>>
vars == <<config, intervalId, previousPrices, timers, now, cycles, last,
          emitted, oracle, updates, reads, fpc, allPrices>>

(***************************************************************************)
(* Bounds of the model.                                                    *)
(***************************************************************************)
MaxCycles == 2      \* update cycles started in one run
MaxClock == 1       \* the clock runs from 0 to MaxClock minutes
MaxUpdates == 1     \* oracle updates during one getAllPrices call

(***************************************************************************)
(* Numbers.  A price is a JavaScript number; the model keeps it as an      *)
(* exact fraction in lowest terms, or as Infinity or NaN.                  *)
(***************************************************************************)
RECURSIVE Gcd(_, _)
Gcd(a, b) == IF b = 0 THEN a ELSE Gcd(b, a % b)

RECURSIVE Pow10(_)
Pow10(k) == IF k = 0 THEN 1 ELSE 10 * Pow10(k - 1)

Num(n, d) ==
    LET g == Gcd(n, d)
    IN  [kind |-> "num", n |-> n \div g, d |-> d \div g]

Infinity == [kind |-> "inf", n |-> 1, d |-> 0]
NaN == [kind |-> "nan", n |-> 0, d |-> 0]

\* a * b in place of a / b
Times(a, b) == Num(a.n * b.n, a.d * b.d)

\* a / b of two finite non-negative numbers, as IEEE 754 division gives it
Divide(a, b) ==
    IF b.n = 0
    THEN IF a.n = 0 THEN NaN ELSE Infinity
    ELSE Num(a.n * b.d, a.d * b.n)

\* the smaller in place of the larger
Min(a, b) == IF a <= b THEN a ELSE b

Max(a, b) == IF a >= b THEN a ELSE b

(***************************************************************************)
(* ChainlinkPriceService                                                   *)
(***************************************************************************)
\* the keys of CHAINLINK_PRICE_FEEDS_SEPOLIA (isTestnet is true)
PriceFeeds == {"BTC/USD", "ETH/USD", "BNB/USD"}

\* the symbols getAllPrices asks for, in its order
AllSymbols == <<"BTC/USD", "ETH/USD", "BTC/ETH", "BNB/ETH">>

Null == [symbol |-> "null", price |-> NaN, timestamp |-> 0, decimals |-> 0]

Pending == [st |-> "pending", answer |-> 0, updatedAt |-> 0, decimals |-> 0]
CallError == [st |-> "error", answer |-> 0, updatedAt |-> 0, decimals |-> 0]
RoundData(answer, updatedAt, decimals) ==
    [st |-> "ok", answer |-> answer, updatedAt |-> updatedAt, decimals |-> decimals]

\* ethers.formatUnits(answer, decimals) read back with Number()
FormatUnits(answer, decimals) == Num(answer, Pow10(decimals))

\* getPrice for a symbol that is not a calculated one; read is what
\* Promise.all([latestRoundData(), decimals()]) settled to
getDirectPrice(symbol, read) ==
    IF symbol \notin PriceFeeds THEN Null
    ELSE IF read.st # "ok" THEN Null
    ELSE [symbol |-> symbol,
          price |-> FormatUnits(read.answer, read.decimals),
          timestamp |-> read.updatedAt * 1000,
          decimals |-> read.decimals]

NumeratorSymbol(symbol) == IF symbol = "BTC/ETH" THEN "BTC/USD" ELSE "BNB/USD"
DenominatorSymbol(symbol) == "ETH/USD"

\* getCalculatedPrice without the test of its two constituent prices
getCalculatedPriceIgnoresFailure(symbol, numRead, denRead) ==
    IF symbol \notin {"BTC/ETH", "BNB/ETH"} THEN Null
    ELSE LET numeratorPrice == getDirectPrice(NumeratorSymbol(symbol), numRead)
             denominatorPrice == getDirectPrice(DenominatorSymbol(symbol), denRead)
         IN  [symbol |-> symbol,
              price |-> IF numeratorPrice = Null \/ denominatorPrice = Null
                        THEN NaN
                        ELSE Divide(numeratorPrice.price, denominatorPrice.price),
              timestamp |-> Max(numeratorPrice.timestamp, denominatorPrice.timestamp),
              decimals |-> 18]

\* getCalculatedPrice dividing the denominator price by the numerator price
getCalculatedPriceInverted(symbol, numRead, denRead) ==
    IF symbol \notin {"BTC/ETH", "BNB/ETH"} THEN Null
    ELSE LET numeratorPrice == getDirectPrice(NumeratorSymbol(symbol), numRead)
             denominatorPrice == getDirectPrice(DenominatorSymbol(symbol), denRead)
         IN  IF numeratorPrice = Null \/ denominatorPrice = Null THEN Null
             ELSE [symbol |-> symbol,
                   price |-> Divide(denominatorPrice.price, numeratorPrice.price),
                   timestamp |-> Max(numeratorPrice.timestamp, denominatorPrice.timestamp),
                   decimals |-> 18]

getCalculatedPrice(symbol, numRead, denRead) ==
    IF symbol \notin {"BTC/ETH", "BNB/ETH"} THEN Null
    ELSE LET numeratorPrice == getDirectPrice(NumeratorSymbol(symbol), numRead)
             denominatorPrice == getDirectPrice(DenominatorSymbol(symbol), denRead)
         IN  IF numeratorPrice = Null \/ denominatorPrice = Null THEN Null
             ELSE [symbol |-> symbol,
                   price |-> Divide(numeratorPrice.price, denominatorPrice.price),
                   timestamp |-> Max(numeratorPrice.timestamp, denominatorPrice.timestamp),
                   decimals |-> 18]

\* An oracle read is named by the symbol getAllPrices asked for and the feed
\* that read goes to: getAllPrices makes six of them.
Sites == {<<"BTC/USD", "BTC/USD">>, <<"ETH/USD", "ETH/USD">>,
          <<"BTC/ETH", "BTC/USD">>, <<"BTC/ETH", "ETH/USD">>,
          <<"BNB/ETH", "BNB/USD">>, <<"BNB/ETH", "ETH/USD">>}

\* getPrice(symbol) as getAllPrices calls it, rd the outcome of every read
getPrice(symbol, rd) ==
    IF symbol \in {"BTC/ETH", "BNB/ETH"}
    THEN getCalculatedPrice(symbol, rd[<<symbol, NumeratorSymbol(symbol)>>],
                            rd[<<symbol, DenominatorSymbol(symbol)>>])
    ELSE IF symbol \in PriceFeeds THEN getDirectPrice(symbol, rd[<<symbol, symbol>>])
    ELSE Null

RECURSIVE FilterNotNull(_)
FilterNotNull(s) ==
    IF s = <<>> THEN <<>>
    ELSE IF Head(s) # Null THEN <<Head(s)>> \o FilterNotNull(Tail(s))
    ELSE FilterNotNull(Tail(s))

\* getAllPrices without the filter of the failed fetches
getAllPricesKeepsNull(rd) ==
    [i \in 1..Len(AllSymbols) |-> getPrice(AllSymbols[i], rd)]

\* getAllPrices asking for BNB/USD too
getAllPricesWithBnbUsd(rd) ==
    LET prices == [i \in 1..Len(AllSymbols) |-> getPrice(AllSymbols[i], rd)]
    IN  FilterNotNull(prices \o
                      <<getDirectPrice("BNB/USD", rd[<<"BNB/ETH", "BNB/USD">>])>>)

\* getAllPrices asking for its symbols in the opposite order
getAllPricesReversed(rd) ==
    LET prices == [i \in 1..Len(AllSymbols) |->
                      getPrice(AllSymbols[Len(AllSymbols) + 1 - i], rd)]
    IN  FilterNotNull(prices)

getAllPrices(rd) ==
    LET prices == [i \in 1..Len(AllSymbols) |-> getPrice(AllSymbols[i], rd)]
    IN  FilterNotNull(prices)


formatPrice(priceData) ==
    LET digits == IF priceData.symbol \in {"BTC/ETH", "BNB/ETH"} THEN 6 ELSE 2
        p == priceData.price
    IN  [symbol |-> priceData.symbol,
         kind |-> p.kind,
         digits |-> digits,
         \* the price rounded to `digits` fraction digits, times 10^digits
         scaled |-> IF p.kind = "num"
                    THEN (2 * p.n * Pow10(digits) + p.d) \div (2 * p.d)
                    ELSE 0,
         time |-> priceData.timestamp]

formatPriceMessage(priceData) ==
    IF Len(priceData) = 0
    THEN [text |-> "No price data available", lines |-> <<>>]
    ELSE [text |-> "Crypto Price Update",
          lines |-> [i \in 1..Len(priceData) |-> formatPrice(priceData[i])]]

(***************************************************************************)
(* The oracle, for SpecFeed: every feed contract holds its latest round.   *)
(***************************************************************************)
Answers == {0, 1, 2}

\* decimals() of each feed contract
FeedDecimals(feed) ==
    IF feed = "BTC/USD" THEN 0 ELSE IF feed = "ETH/USD" THEN 1 ELSE 2

InitOracle ==
    /\ oracle \in [PriceFeeds -> [answer : Answers, updatedAt : {1}]]
    /\ updates = 0
    /\ reads = [s \in Sites |-> Pending]
    /\ fpc = "idle"
    /\ allPrices = <<>>

\* getAllPrices is called: the six reads are issued together
FeedCall ==
    /\ fpc = "idle"
    /\ fpc' = "reading"
    /\ UNCHANGED <<oracle, updates, reads, allPrices>>

\* one of the reads settles: with the round the contract holds now, or
\* with a call error (RPC failure, revert)
OracleRead(site) ==
    /\ fpc = "reading"
    /\ reads[site] = Pending
    /\ \E failed \in BOOLEAN :
         reads' = [reads EXCEPT ![site] =
                     IF failed THEN CallError
                     ELSE RoundData(oracle[site[2]].answer,
                                    oracle[site[2]].updatedAt,
                                    FeedDecimals(site[2]))]
    /\ UNCHANGED <<oracle, updates, fpc, allPrices>>

\* the oracle network reports a new round for a feed
OracleUpdate(feed) ==
    /\ fpc = "reading"
    /\ updates < MaxUpdates
    /\ \E a \in Answers \ {oracle[feed].answer} :
         oracle' = [oracle EXCEPT ![feed] =
                      [answer |-> a, updatedAt |-> oracle[feed].updatedAt + 1]]
    /\ updates' = updates + 1
    /\ UNCHANGED <<reads, fpc, allPrices>>

\* every read has settled: Promise.all resolves and getAllPrices returns
FeedReturn ==
    /\ fpc = "reading"
    /\ \A s \in Sites : reads[s] # Pending
    /\ allPrices' = getAllPrices(reads)
    /\ fpc' = "done"
    /\ UNCHANGED <<oracle, updates, reads>>

(***************************************************************************)
(* PriceBot                                                                *)
(***************************************************************************)
\* interval lengths, in minutes, a caller configures
IntervalChoices == {1, 2}

\* symbol lists a caller configures; "BNB/USD" has a feed but getAllPrices
\* never asks for it
SymbolChoices == {AllSymbols, <<"BNB/USD", "BTC/ETH", "BTC/USD">>}

Configs == [intervalMinutes : IntervalChoices, enabled : BOOLEAN,
            symbols : SymbolChoices]

\* Partial<PriceBotConfig>, here with at most one field: has names the
\* fields that are present (the value of an absent field is not looked at,
\* and is written as the default)
Fields == {"intervalMinutes", "enabled", "symbols"}

Partials ==
    {p \in [has : {{}} \cup {{f} : f \in Fields},
            intervalMinutes : IntervalChoices \cup {5}, enabled : BOOLEAN,
            symbols : SymbolChoices] :
        /\ "intervalMinutes" \in p.has <=> p.intervalMinutes \in IntervalChoices
        /\ "enabled" \notin p.has => p.enabled
        /\ "symbols" \notin p.has => p.symbols = AllSymbols}

\* newConfig taken whole, its absent fields included
MergeOverwrites(cfg, newConfig) ==
    [intervalMinutes |-> newConfig.intervalMinutes,
     enabled |-> newConfig.enabled,
     symbols |-> newConfig.symbols]

\* { ...config, ...newConfig }
Merge(cfg, newConfig) ==
    [intervalMinutes |-> IF "intervalMinutes" \in newConfig.has
                         THEN newConfig.intervalMinutes ELSE cfg.intervalMinutes,
     enabled |-> IF "enabled" \in newConfig.has
                 THEN newConfig.enabled ELSE cfg.enabled,
     symbols |-> IF "symbols" \in newConfig.has
                 THEN newConfig.symbols ELSE cfg.symbols]

FailureText == "Failed to fetch latest prices. Please try again later."

isRunning == intervalId # 0

\* The part of the state the synchronous methods work on, as a record b:
\* config, intervalId, timers, cycles, and stops, the number of calls of
\* stop() the current call has made.
Bot ==
    [config |-> config, intervalId |-> intervalId, timers |-> timers,
     cycles |-> cycles, stops |-> 0]

\* clearInterval(id)
clearInterval(tms, id) == {t \in tms : t.id # id}

\* the handle setInterval returns: a positive number no armed timer has
newHandle(tms) ==
    CHOOSE id \in 1..(Cardinality(tms) + 1) : \A t \in tms : t.id # id

\* setInterval(callback, ms) at time t, returning handle id
setInterval(tms, id, minutes, t) ==
    tms \cup {[id |-> id, period |-> minutes, due |-> t + minutes]}

\* stop() that forgets the timer without cancelling it
stopKeepsTimer(b) ==
    IF b.intervalId # 0
    THEN [b EXCEPT !.stops = @ + 1, !.intervalId = 0]
    ELSE [b EXCEPT !.stops = @ + 1]

\* stop() that also abandons the update cycles in flight
stopCancels(b) ==
    LET called == [b EXCEPT !.stops = @ + 1,
                            !.cycles = [c \in 1..Len(b.cycles) |->
                                          IF b.cycles[c].status = "fetching"
                                          THEN [b.cycles[c] EXCEPT !.status = "cancelled"]
                                          ELSE b.cycles[c]]]
    IN  IF b.intervalId # 0
        THEN [called EXCEPT !.timers = clearInterval(@, b.intervalId),
                            !.intervalId = 0]
        ELSE called

stop(b) ==
    LET called == [b EXCEPT !.stops = @ + 1]
    IN  IF b.intervalId # 0
        THEN [called EXCEPT !.timers = clearInterval(@, b.intervalId),
                            !.intervalId = 0]
        ELSE called

\* sendPriceUpdate that returns at once while another call is in flight
beginUpdateSerialized(b, origin) ==
    IF \E c \in 1..Len(b.cycles) : b.cycles[c].status = "fetching" THEN b
    ELSE [b EXCEPT !.cycles = Append(@, [origin |-> origin, status |-> "fetching"])]

\* the synchronous part of sendPriceUpdate: the fetch is issued and the
\* call waits for it
beginUpdate(b, origin) ==
    [b EXCEPT !.cycles = Append(@, [origin |-> origin, status |-> "fetching"])]

\* start() without the stop() of a running scheduler
startNoStop(b) ==
    IF ~b.config.enabled THEN b
    ELSE LET b2 == beginUpdate(b, "start")
             id == newHandle(b2.timers)
         IN  [b2 EXCEPT !.timers = setInterval(@, id,
                                               b2.config.intervalMinutes, now),
                        !.intervalId = id]

\* start() without the test of config.enabled
startIgnoresEnabled(b) ==
    LET b1 == IF b.intervalId # 0 THEN stop(b) ELSE b
        b2 == beginUpdate(b1, "start")
        id == newHandle(b2.timers)
    IN  [b2 EXCEPT !.timers = setInterval(@, id, b2.config.intervalMinutes, now),
                   !.intervalId = id]

\* start() without the immediate update cycle
startArmsOnly(b) ==
    LET b1 == IF b.intervalId # 0 THEN stop(b) ELSE b
    IN  IF ~b1.config.enabled THEN b1
        ELSE LET id == newHandle(b1.timers)
             IN  [b1 EXCEPT !.timers = setInterval(@, id,
                                                   b1.config.intervalMinutes, now),
                            !.intervalId = id]

start(b) ==
    LET b1 == IF b.intervalId # 0 THEN stop(b) ELSE b
    IN  IF ~b1.config.enabled THEN b1
        ELSE LET b2 == beginUpdate(b1, "start")
                 id == newHandle(b2.timers)
             IN  [b2 EXCEPT !.timers = setInterval(@, id,
                                                   b2.config.intervalMinutes, now),
                            !.intervalId = id]

\* triggerManualUpdate() going through start()
triggerManualUpdateRestarts(b) == start(b)

\* triggerManualUpdate(): await this.sendPriceUpdate()
triggerManualUpdate(b) == beginUpdate(b, "manual")

\* updateConfig that never stops the scheduler
updateConfigNoStop(b, newConfig) ==
    LET b1 == [b EXCEPT !.config = Merge(b.config, newConfig)]
    IN  IF b1.config.enabled /\ b1.intervalId = 0 THEN start(b1) ELSE b1

\* updateConfig that never starts the scheduler
updateConfigNoStart(b, newConfig) ==
    LET b1 == [b EXCEPT !.config = Merge(b.config, newConfig)]
    IN  IF ~b1.config.enabled /\ b1.intervalId # 0 THEN stop(b1) ELSE b1

\* updateConfig that starts the scheduler anew whenever it is enabled
updateConfigRearms(b, newConfig) ==
    LET b1 == [b EXCEPT !.config = Merge(b.config, newConfig)]
    IN  IF b1.config.enabled THEN start(b1)
        ELSE IF b1.intervalId # 0 THEN stop(b1)
        ELSE b1

updateConfig(b, newConfig) ==
    LET b1 == [b EXCEPT !.config = Merge(b.config, newConfig)]
    IN  IF b1.config.enabled /\ b1.intervalId = 0 THEN start(b1)
        ELSE IF ~b1.config.enabled /\ b1.intervalId # 0 THEN stop(b1)
        ELSE b1

includes(symbols, symbol) == \E i \in 1..Len(symbols) : symbols[i] = symbol

\* the fetched list passed on unfiltered
filterNothing(prices, symbols) == prices

\* allPrices.filter(price => this.config.symbols.includes(price.symbol))
filterPrices(prices, symbols) ==
    SelectSeq(prices, LAMBDA price : includes(symbols, price.symbol))

priceMessage(filteredPrices, t) ==
    [id |-> <<"price-bot", t>>, type |-> "price-bot",
     content |-> formatPriceMessage(filteredPrices), timestamp |-> t,
     hasPriceData |-> TRUE, priceData |-> filteredPrices,
     senderName |-> "Price Bot"]

errorMessage(t) ==
    [id |-> <<"price-bot-error", t>>, type |-> "price-bot",
     content |-> [text |-> FailureText, lines |-> <<>>], timestamp |-> t,
     hasPriceData |-> FALSE, priceData |-> <<>>,
     senderName |-> "Price Bot"]

\* previousPrices keeping the first price it saw of each symbol
setAllOnce(map, prices) ==
    [s \in DOMAIN map |->
        LET at == {i \in 1..Len(prices) : prices[i].symbol = s}
        IN  IF map[s] # Null \/ at = {} THEN map[s]
            ELSE prices[CHOOSE i \in at : \A j \in at : j <= i]]

\* filteredPrices.forEach(price => this.previousPrices.set(price.symbol, price))
RECURSIVE setAll(_, _)
setAll(map, prices) ==
    IF prices = <<>> THEN map
    ELSE setAll([map EXCEPT ![Head(prices).symbol] = Head(prices)], Tail(prices))

\* What follows `await priceService.getAllPrices()` in sendPriceUpdate, for
\* one update cycle: fetched is the list the fetch resolved to, throws1 and
\* throws2 say whether the first and the second call of messageCallback
\* throw.  The result
\* is the new previousPrices, the messages passed to messageCallback in
\* order, and the cycle's status:
\*   "sent"      the price message was passed to the callback
\*   "skipped"   no configured symbol was fetched: the early return
\*   "failed"    the catch block passed the error message to the callback
\*   "rejected"  the callback threw inside the catch block, so the promise
\*               of sendPriceUpdate rejects
\* sendPriceUpdate that reports an empty filtered list through the callback
sendPriceUpdateReportsEmpty(fetched, throws1, throws2) ==
    LET filteredPrices == filterPrices(fetched, config.symbols)
        message == priceMessage(filteredPrices, now)
    IN  IF Len(filteredPrices) = 0
        THEN [previousPrices |-> previousPrices, emitted |-> <<errorMessage(now)>>,
              status |-> IF throws1 THEN "rejected" ELSE "failed"]
        ELSE IF ~throws1
        THEN [previousPrices |-> setAll(previousPrices, filteredPrices),
              emitted |-> <<message>>, status |-> "sent"]
        ELSE [previousPrices |-> setAll(previousPrices, filteredPrices),
              emitted |-> <<message, errorMessage(now)>>,
              status |-> IF throws2 THEN "rejected" ELSE "failed"]

sendPriceUpdate(fetched, throws1, throws2) ==
    LET filteredPrices == filterPrices(fetched, config.symbols)
        message == priceMessage(filteredPrices, now)
    IN  IF Len(filteredPrices) = 0
        THEN [previousPrices |-> previousPrices, emitted |-> <<>>,
              status |-> "skipped"]
        ELSE IF ~throws1
        THEN [previousPrices |-> setAll(previousPrices, filteredPrices),
              emitted |-> <<message>>, status |-> "sent"]
        ELSE [previousPrices |-> setAll(previousPrices, filteredPrices),
              emitted |-> <<message, errorMessage(now)>>,
              status |-> IF throws2 THEN "rejected" ELSE "failed"]

(***************************************************************************)
(* What the feed service answers the bot's fetches with, in Spec: every    *)
(* read of a feed settles alike.                                           *)
(***************************************************************************)
FeedReads(btc, eth, bnb) ==
    [s \in Sites |-> IF s[2] = "BTC/USD" THEN btc
                     ELSE IF s[2] = "ETH/USD" THEN eth ELSE bnb]

\* at minute t the feeds hold round t: BTC/USD at 3 + t, ETH/USD at 2.0,
\* BNB/USD at 1.00; the BTC/USD feed, or every feed, may be out of reach
ReadScenarios(t) ==
    {FeedReads(RoundData(3 + t, t, 0), RoundData(20, t, 1), RoundData(100, t, 2)),
     FeedReads(CallError, RoundData(20, t, 1), RoundData(100, t, 2)),
     FeedReads(CallError, CallError, CallError)}

(***************************************************************************)
(* The state after construction.                                           *)
(***************************************************************************)
Symbols == {"BTC/USD", "ETH/USD", "BNB/USD", "BTC/ETH", "BNB/ETH"}

\* An event.  op is the method called ("new" for the constructor), "tick"
\* for a timer tick, "cycle" for an update cycle running to its end;
\* wasRunning is isRunning() before it.  Of a method call or a tick: began
\* is the number of update cycles it began, stops the number of calls of
\* stop() it made, disables says that it was updateConfig with enabled:
\* false.  Of a cycle: what started it, and the status it ended with.
Event(op, began, stops, disables, origin, status) ==
    [op |-> op, wasRunning |-> isRunning, began |-> began, stops |-> stops,
     disables |-> disables, origin |-> origin, status |-> status]

Call(op, began, stops, disables) ==
    Event(op, began, stops, disables, "none", "none")

InitBot ==
    /\ intervalId = 0
    /\ previousPrices = [s \in Symbols |-> Null]
    /\ timers = {}
    /\ now = 0
    /\ cycles = <<>>
    /\ emitted = <<>>
    /\ last = Call("new", 0, 0, FALSE)

Init ==
    /\ config \in Configs
    /\ InitBot
    /\ oracle = [f \in PriceFeeds |-> [answer |-> 1, updatedAt |-> 1]]
    /\ updates = 0
    /\ reads = [s \in Sites |-> Pending]
    /\ fpc = "idle"
    /\ allPrices = <<>>

(***************************************************************************)
(* The actions of Spec.                                                    *)
(***************************************************************************)
\* a call of a synchronous method returns with the bot as b
Return(op, b, disables) ==
    /\ Len(b.cycles) <= MaxCycles
    /\ config' = b.config
    /\ intervalId' = b.intervalId
    /\ timers' = b.timers
    /\ cycles' = b.cycles
    /\ last' = Call(op, Len(b.cycles) - Len(cycles), b.stops, disables)
    /\ emitted' = <<>>
    /\ UNCHANGED <<previousPrices, now>>

Start == Return("start", start(Bot), FALSE) /\ UNCHANGED feedVars

Stop == Return("stop", stop(Bot), FALSE) /\ UNCHANGED feedVars

UpdateConfigWith(newConfig) ==
    /\ Return("updateConfig", updateConfig(Bot, newConfig),
              "enabled" \in newConfig.has /\ ~newConfig.enabled)
    /\ UNCHANGED feedVars

UpdateConfig == \E newConfig \in Partials : UpdateConfigWith(newConfig)

TriggerManualUpdate ==
    /\ Return("triggerManualUpdate", triggerManualUpdate(Bot), FALSE)
    /\ UNCHANGED feedVars

\* an armed timer is due: its callback calls sendPriceUpdate
Tick ==
    /\ \E t \in timers :
         /\ t.due = now
         /\ Len(cycles) < MaxCycles
         /\ cycles' = beginUpdate(Bot, "tick").cycles
         /\ timers' = (timers \ {t}) \cup {[t EXCEPT !.due = now + t.period]}
    /\ last' = Call("tick", 1, 0, FALSE)
    /\ emitted' = <<>>
    /\ UNCHANGED <<config, intervalId, previousPrices, now>>
    /\ UNCHANGED feedVars

\* a minute passes; the timers that are due fire first
Advance ==
    /\ now < MaxClock
    /\ \A t \in timers : t.due > now
    /\ now' = now + 1
    /\ UNCHANGED <<config, intervalId, previousPrices, timers, cycles, last,
                   emitted>>
    /\ UNCHANGED feedVars

\* the end of an update cycle that clears the timer when the cycle did not
\* end with a price message sent
FetchReturnStopsOnFailure(c, rd, throws1, throws2) ==
    /\ cycles[c].status = "fetching"
    /\ LET r == sendPriceUpdate(getAllPrices(rd), throws1, throws2)
       IN  /\ previousPrices' = r.previousPrices
           /\ emitted' = r.emitted
           /\ cycles' = [cycles EXCEPT ![c].status = "done"]
           /\ last' = Event("cycle", 0, 0, FALSE, cycles[c].origin, r.status)
           /\ timers' = IF r.status = "sent" THEN timers
                        ELSE clearInterval(timers, intervalId)
           /\ intervalId' = IF r.status = "sent" THEN intervalId ELSE 0
    /\ UNCHANGED <<config, now>>
    /\ UNCHANGED feedVars

\* const allPrices = await chainlinkPriceService.getAllPrices(): what the
\* call resolves to, tabulated for every outcome of the reads at every minute
\* of the clock
Fetched ==
    [rd \in UNION {ReadScenarios(t) : t \in 0..MaxClock} |-> getAllPrices(rd)]

\* the fetch of update cycle c resolves and the cycle runs to its end
FetchReturnWith(c, rd, throws1, throws2) ==
    /\ cycles[c].status = "fetching"
    /\ cycles' = [cycles EXCEPT ![c].status = "done"]
    /\ UNCHANGED <<config, intervalId, timers, now>>
    /\ UNCHANGED feedVars
    /\ LET r == sendPriceUpdate(Fetched[rd], throws1, throws2)
       IN  /\ last' = Event("cycle", 0, 0, FALSE, cycles[c].origin, r.status)
           /\ emitted' = r.emitted
           /\ previousPrices' = r.previousPrices

FetchReturn ==
    \E c \in 1..Len(cycles), rd \in ReadScenarios(now), throws1 \in BOOLEAN :
    \E throws2 \in IF throws1 THEN BOOLEAN ELSE {FALSE} :
        FetchReturnWith(c, rd, throws1, throws2)

Next ==
    \/ Start
    \/ Stop
    \/ UpdateConfig
    \/ TriggerManualUpdate
    \/ Tick
    \/ Advance
    \/ FetchReturn

Spec == Init /\ [][Next]_vars

\* Spec with every fetch settling in the end: each oracle call returns or
\* errors, so the continuation of a cycle in flight is run
SpecLive == Init /\ [][Next]_vars /\ WF_vars(FetchReturn)

(***************************************************************************)
(* SpecAlias: a PriceBot whose caller also writes to the objects it shares *)
(* with the bot.  The constructor keeps its config argument itself          *)
(* (this.config = config), and only updateConfig replaces it, so in this    *)
(* specification, which has no updateConfig, this.config is the caller's   *)
(* object throughout.  getConfig() and getPreviousPrices() return shallow   *)
(* copies: the copy is the caller's own, but the symbols array and the     *)
(* PriceData objects reached through it are the bot's.                     *)
(***************************************************************************)
\* what the caller writes to
WriteTargets ==
    {"argument.enabled", "argument.intervalMinutes", "argument.symbols",
     "getConfig().enabled", "getConfig().symbols[]",
     "getPreviousPrices().delete", "getPreviousPrices().get().price"}

\* the bot's config after the caller wrote value v to the target
writeConfig(target, v) ==
    IF target = "argument.enabled" THEN [config EXCEPT !.enabled = v.enabled]
    ELSE IF target = "argument.intervalMinutes"
    THEN [config EXCEPT !.intervalMinutes = v.intervalMinutes]
    ELSE IF target \in {"argument.symbols", "getConfig().symbols[]"}
    THEN [config EXCEPT !.symbols = v.symbols]
    ELSE config

\* the bot's map after the caller wrote to the entry of symbol s
writePrices(target, s) ==
    IF target = "getPreviousPrices().get().price" /\ previousPrices[s] # Null
    THEN [previousPrices EXCEPT ![s].price = Num(0, 1)]
    ELSE previousPrices

\* the values the caller writes to the target, as the config holding them
WriteValues(target) ==
    IF target \in {"argument.enabled", "getConfig().enabled"}
    THEN {[config EXCEPT !.enabled = e] : e \in BOOLEAN}
    ELSE IF target = "argument.intervalMinutes"
    THEN {[config EXCEPT !.intervalMinutes = m] : m \in IntervalChoices}
    ELSE IF target \in {"argument.symbols", "getConfig().symbols[]"}
    THEN {[config EXCEPT !.symbols = l] : l \in SymbolChoices}
    ELSE {config}

\* the map entries the caller writes to
WriteEntries(target) ==
    IF target \in {"getPreviousPrices().delete", "getPreviousPrices().get().price"}
    THEN Symbols ELSE {"BTC/USD"}

CallerWrite ==
    /\ \E target \in WriteTargets :
       \E v \in WriteValues(target), s \in WriteEntries(target) :
         /\ config' = writeConfig(target, v)
         /\ previousPrices' = writePrices(target, s)
    /\ last' = Call("write", 0, 0, FALSE)
    /\ emitted' = <<>>
    /\ UNCHANGED <<intervalId, timers, now, cycles>>
    /\ UNCHANGED feedVars

NextAlias ==
    \/ Start
    \/ Stop
    \/ TriggerManualUpdate
    \/ Tick
    \/ Advance
    \/ FetchReturn
    \/ CallerWrite

SpecAlias == Init /\ [][NextAlias]_vars

(***************************************************************************)
(* SpecFeed: one getAllPrices call against a changing oracle.              *)
(***************************************************************************)
InitFeed ==
    /\ config = [intervalMinutes |-> 5, enabled |-> TRUE, symbols |-> AllSymbols]
    /\ InitBot
    /\ InitOracle

NextFeed ==
    \/ FeedCall /\ UNCHANGED botVars
    \/ \E site \in Sites : OracleRead(site) /\ UNCHANGED botVars
    \/ \E feed \in PriceFeeds : OracleUpdate(feed) /\ UNCHANGED botVars
    \/ FeedReturn /\ UNCHANGED botVars

SpecFeed == InitFeed /\ [][NextFeed]_vars

(***************************************************************************)
(* The claims.                                                             *)
(***************************************************************************)

\* C1, as stated: in every reachable state, enabled false implies no active
\* timer and enabled true implies exactly one active timer.
C1_EnabledIffOneTimer ==
    /\ ~config.enabled => timers = {}
    /\ config.enabled => Cardinality(timers) = 1

\* C1, amended: in every reachable state, enabled false implies no active
\* timer and enabled true implies at most one active timer.
C1_AtMostOneTimer ==
    /\ ~config.enabled => timers = {}
    /\ config.enabled => Cardinality(timers) <= 1

C1_Witness ==
    /\ last.op = "tick"
    /\ config.enabled
    /\ Cardinality(timers) = 1

\* C2: start() on a scheduler that is Running (no stop() in between) calls
\* stop() first and leaves exactly one active timer, the one intervalId
\* names.
C2_StartTwiceOneTimer ==
    (last.op = "start" /\ last.wasRunning /\ config.enabled) =>
        /\ last.stops = 1
        /\ Cardinality(timers) = 1
        /\ \A t \in timers : t.id = intervalId

C2_Witness ==
    /\ last.op = "start"
    /\ last.wasRunning
    /\ config.enabled
    /\ Cardinality(timers) = 1
    /\ Len(cycles) = 2

\* C3: start() with enabled false arms no timer, begins no update cycle and
\* leaves the scheduler Stopped.
C3_DisabledStartDoesNothing ==
    (last.op = "start" /\ ~config.enabled) =>
        /\ timers = {}
        /\ ~isRunning
        /\ last.began = 0

C3_Witness ==
    /\ last.op = "start"
    /\ ~config.enabled
    /\ ~isRunning

\* C4: right after updateConfig, isRunning() equals the merged enabled flag:
\* enabled and Stopped, it called start(); disabled and Running, it called
\* stop(); otherwise it called neither and the running state is as before.
C4_UpdateConfigFollowsEnabled ==
    last.op = "updateConfig" =>
        /\ isRunning <=> config.enabled
        /\ (config.enabled /\ ~last.wasRunning) => (last.began = 1 /\ last.stops = 0)
        /\ (~config.enabled /\ last.wasRunning) => (last.stops = 1 /\ last.began = 0)
        /\ (config.enabled <=> last.wasRunning) =>
              (last.began = 0 /\ last.stops = 0 /\ (isRunning <=> last.wasRunning))

C4_Witness ==
    /\ last.op = "updateConfig"
    /\ config.enabled
    /\ ~last.wasRunning
    /\ isRunning

\* the latest event is updateConfig({enabled: false}) on a Running scheduler
DisabledWhileRunning(event) ==
    event.op = "updateConfig" /\ event.disables /\ event.wasRunning

\* C5, as stated: updateConfig({enabled: false}) on a Running scheduler calls
\* stop() exactly once, and the event that follows it is not a call of the
\* message callback.
C5_NoCallbackAfterDisable ==
    [][/\ DisabledWhileRunning(last') => last'.stops = 1
       /\ DisabledWhileRunning(last) => emitted' = <<>>]_vars

\* C5, amended: updateConfig({enabled: false}) on a Running scheduler calls
\* stop() exactly once and leaves no timer armed, and the event that follows
\* it is not a timer tick (an update cycle that was in flight may still end
\* and call the message callback).
C5_NoTickAfterDisable ==
    [][/\ DisabledWhileRunning(last') =>
            (last'.stops = 1 /\ timers' = {} /\ intervalId' = 0)
       /\ DisabledWhileRunning(last) => last'.op # "tick"]_vars

C5_Witness ==
    /\ DisabledWhileRunning(last)
    /\ \E c \in 1..Len(cycles) : cycles[c].status = "fetching"

\* C6: every triggerManualUpdate() calls the message callback exactly once.
C6_ManualUpdateCallsOnce ==
    (last.op = "cycle" /\ last.origin = "manual") => Len(emitted) = 1

\* C7: a manual update whose fetch brings no configured symbol calls the
\* callback once, with the failure text and no priceData.
C7_EmptyManualUpdateReportsError ==
    (last.op = "cycle" /\ last.origin = "manual" /\ last.status = "skipped") =>
        /\ Len(emitted) = 1
        /\ emitted[1].content.text = FailureText
        /\ ~emitted[1].hasPriceData

\* C8: no update cycle rejects, and a cycle in which something failed passes
\* exactly one error message (failure text, no priceData) to the callback.
C8_CycleNeverRejects ==
    last.op = "cycle" =>
        /\ last.status # "rejected"
        /\ last.status = "failed" =>
              Cardinality({i \in 1..Len(emitted) : ~emitted[i].hasPriceData}) = 1

\* the entries of prices whose symbol is one of symbols, in the order of prices
Configured(prices, symbols) ==
    SelectSeq(prices, LAMBDA p : p.symbol \in {symbols[i] : i \in 1..Len(symbols)})

FailedSymbols ==
    {AllSymbols[i] : i \in {j \in 1..Len(AllSymbols) :
        \E site \in Sites : site[1] = AllSymbols[j] /\ reads[site].st = "error"}}

\* C10: the list getAllPrices returns holds the symbols it asked for none of
\* whose reads failed, each once; with one of the four failing its length
\* is 3.
C10_FailedFetchesDropped ==
    fpc = "done" =>
        /\ {allPrices[i].symbol : i \in 1..Len(allPrices)} =
              {AllSymbols[i] : i \in 1..Len(AllSymbols)} \ FailedSymbols
        /\ Len(allPrices) = Len(AllSymbols) - Cardinality(FailedSymbols)
        /\ Cardinality(FailedSymbols) = 1 => Len(allPrices) = 3

C10_Witness ==
    /\ fpc = "done"
    /\ Cardinality(FailedSymbols) = 1
    /\ Len(allPrices) = 3

\* every oracle read of the getAllPrices call has settled
Settled == \A s \in Sites : reads[s] # Pending

\* symbols no feed and no calculation exists for
UnknownSymbols == {"DOGE/USD", "ETH/BTC"}

\* r is a PriceData for symbol
IsPriceData(r, symbol) ==
    /\ r.symbol = symbol
    /\ r.price.kind \in {"num", "inf", "nan"}
    /\ r.timestamp \in Nat
    /\ r.decimals \in Nat

\* C11: whatever the oracle reads settled to, getPrice gives a PriceData of
\* the symbol asked for or null; it gives null for an unknown symbol, for a
\* direct symbol whose read failed, and for a derived symbol one of whose two
\* reads failed.
C11_GetPriceNullOnFailure ==
    Settled =>
        \A symbol \in {AllSymbols[i] : i \in 1..Len(AllSymbols)} \cup UnknownSymbols :
            LET r == getPrice(symbol, reads)
            IN  /\ r = Null \/ IsPriceData(r, symbol)
                /\ symbol \in UnknownSymbols => r = Null
                /\ (\E site \in Sites : site[1] = symbol /\ reads[site].st = "error")
                      => r = Null

C11_Witness ==
    /\ Settled
    /\ reads[<<"BTC/ETH", "BTC/USD">>].st = "ok"
    /\ reads[<<"BTC/ETH", "ETH/USD">>].st = "error"
    /\ getPrice("BTC/ETH", reads) = Null
    /\ getPrice("BTC/USD", reads) # Null
    /\ getPrice("DOGE/USD", reads) = Null

DerivedSymbols == {"BTC/ETH", "BNB/ETH"}

\* the two constituent fetches getCalculatedPrice(symbol) made
NumeratorFetch(symbol) ==
    getDirectPrice(NumeratorSymbol(symbol), reads[<<symbol, NumeratorSymbol(symbol)>>])

DenominatorFetch(symbol) ==
    getDirectPrice(DenominatorSymbol(symbol),
                   reads[<<symbol, DenominatorSymbol(symbol)>>])

BothFetched(symbol) ==
    /\ Settled
    /\ reads[<<symbol, NumeratorSymbol(symbol)>>].st = "ok"
    /\ reads[<<symbol, DenominatorSymbol(symbol)>>].st = "ok"

\* C12: for a derived symbol both of whose constituent fetches succeeded,
\* getPrice gives a result whose price is the quotient of the numerator
\* price p and the denominator price q: the number r with r * q = p when q
\* is not zero, Infinity for p / 0 with p > 0, and NaN for 0 / 0.
C12_DerivedPriceIsQuotient ==
    \A symbol \in DerivedSymbols :
        BothFetched(symbol) =>
            LET r == getPrice(symbol, reads)
                p == NumeratorFetch(symbol).price
                q == DenominatorFetch(symbol).price
            IN  /\ r # Null
                /\ r.symbol = symbol
                /\ IF q.n # 0
                   THEN /\ r.price.kind = "num"
                        /\ r.price.n * q.n * p.d = p.n * r.price.d * q.d
                   ELSE IF p.n # 0 THEN r.price = Infinity
                   ELSE r.price = NaN

C12_Witness ==
    /\ BothFetched("BTC/ETH")
    /\ BothFetched("BNB/ETH")
    /\ DenominatorFetch("BTC/ETH").price.n = 0
    /\ getPrice("BTC/ETH", reads).price = Infinity
    /\ DenominatorFetch("BNB/ETH").price = Num(1, 5)
    /\ NumeratorFetch("BNB/ETH").price = Num(1, 50)
    /\ getPrice("BNB/ETH", reads).price = Num(1, 10)

DirectSymbols == {"BTC/USD", "ETH/USD"}

\* C13: a derived result carries the later of the timestamps of its two
\* constituent fetches and decimals 18; a direct result carries the round's
\* updatedAt, in seconds, times 1000, and the decimals of its feed contract.
C13_TimestampAndDecimals ==
    /\ \A symbol \in DerivedSymbols :
          BothFetched(symbol) =>
              LET r == getPrice(symbol, reads)
                  tn == NumeratorFetch(symbol).timestamp
                  td == DenominatorFetch(symbol).timestamp
              IN  /\ r.timestamp \in {tn, td}
                  /\ r.timestamp >= tn
                  /\ r.timestamp >= td
                  /\ r.decimals = 18
    /\ \A symbol \in DirectSymbols :
          (Settled /\ reads[<<symbol, symbol>>].st = "ok") =>
              LET r == getPrice(symbol, reads)
              IN  /\ r.timestamp = reads[<<symbol, symbol>>].updatedAt * 1000
                  /\ r.decimals = reads[<<symbol, symbol>>].decimals
                  /\ r.decimals = FeedDecimals(symbol)

C13_Witness ==
    /\ BothFetched("BTC/ETH")
    /\ NumeratorFetch("BTC/ETH").timestamp = 1000
    /\ DenominatorFetch("BTC/ETH").timestamp = 2000
    /\ getPrice("BTC/ETH", reads).timestamp = 2000
    /\ reads[<<"ETH/USD", "ETH/USD">>].st = "ok"
    /\ getPrice("ETH/USD", reads).timestamp = 1000
    /\ getPrice("ETH/USD", reads).decimals = 1

\* C14: a write of the caller to the config object it passed to the
\* constructor, or to what getConfig() and getPreviousPrices() returned,
\* leaves the bot's config and its previous-price map as they were.
C14_ExposedByCopyOnly ==
    [][last'.op = "write" =>
          (config' = config /\ previousPrices' = previousPrices)]_vars

\* the ids of the messages in a list
Ids(messages) == {messages[i].id : i \in 1..Len(messages)}

\* C15: the messages one update cycle passes to the callback have different
\* ids, and none of them has the id of a message the update cycle that ended
\* just before passed to the callback.
C15_MessageIdsUnique ==
    [][(cycles' # cycles /\ last'.op = "cycle") =>
          /\ Cardinality(Ids(emitted')) = Len(emitted')
          /\ last.op = "cycle" => Ids(emitted') \cap Ids(emitted) = {}]_vars

\* C16: updateConfig that changes intervalMinutes of a Running scheduler
\* changes nothing but config.intervalMinutes: the armed timer, with its
\* period and its next expiry, and intervalId stay as they were, no stop()
\* is called and no update cycle begins.
C16_IntervalChangeKeepsTimer ==
    [][(last'.op = "updateConfig" /\ isRunning
           /\ config'.intervalMinutes # config.intervalMinutes) =>
          /\ timers' = timers
          /\ intervalId' = intervalId
          /\ cycles' = cycles
          /\ last'.stops = 0
          /\ last'.began = 0
          /\ config' = [config EXCEPT !.intervalMinutes = config'.intervalMinutes]
          /\ previousPrices' = previousPrices]_vars

C16_Witness ==
    /\ last.op = "updateConfig"
    /\ last.wasRunning
    /\ isRunning
    /\ \E t \in timers : t.id = intervalId /\ t.period # config.intervalMinutes

\* the entries of a list of PriceData (or of formatted lines) come in the
\* order their symbols have in symbols
InOrderOf(entries, symbols) ==
    \A i, j \in 1..Len(entries) :
        i < j => \E a, b \in 1..Len(symbols) :
                    /\ a < b
                    /\ symbols[a] = entries[i].symbol
                    /\ symbols[b] = entries[j].symbol

\* C17: in every message an update cycle passes to the callback, the
\* priceData entries and the lines of the content come in the order their
\* symbols have in config.symbols.
C17_DisplayInConfiguredOrder ==
    last.op = "cycle" =>
        \A m \in 1..Len(emitted) :
            /\ InOrderOf(emitted[m].priceData, config.symbols)
            /\ InOrderOf(emitted[m].content.lines, config.symbols)

\* C18: a price message an update cycle passes to the callback has an entry
\* for every configured symbol whose previous price was known when the
\* cycle ended, also when the fetch brought no data for that symbol.
C18_FallsBackToPreviousPrice ==
    [][(cycles' # cycles /\ last'.op = "cycle" /\ last'.status # "skipped") =>
          \A i \in 1..Len(config.symbols) :
              previousPrices[config.symbols[i]] # Null =>
                  \E k \in 1..Len(emitted'[1].priceData) :
                      emitted'[1].priceData[k].symbol = config.symbols[i]]_vars

\* C19: when every read succeeded, getAllPrices returns four entries, of
\* BTC/USD, ETH/USD, BTC/ETH and BNB/ETH in this order, in whatever order
\* the reads settled and whatever the oracle did meanwhile.
C19_AllPricesCanonicalOrder ==
    (fpc = "done" /\ \A s \in Sites : reads[s].st = "ok") =>
        /\ Len(allPrices) = 4
        /\ [i \in 1..Len(allPrices) |-> allPrices[i].symbol] =
              <<"BTC/USD", "ETH/USD", "BTC/ETH", "BNB/ETH">>

C19_Witness ==
    /\ fpc = "done"
    /\ \A s \in Sites : reads[s].st = "ok"
    /\ updates > 0
    /\ reads[<<"BNB/ETH", "ETH/USD">>].updatedAt < reads[<<"ETH/USD", "ETH/USD">>].updatedAt
    /\ Len(allPrices) = 4

\* C20: after updateConfig(partial), every field of the config that is
\* present in partial has the value partial gives it, and every field that
\* is absent from partial has the value it had before the call.
C20_UpdateConfigMerges ==
    [][\A partial \in Partials :
          (last'.op = "updateConfig" /\ UpdateConfigWith(partial)) =>
              \A f \in Fields :
                  config'[f] = IF f \in partial.has THEN partial[f] ELSE config[f]
      ]_vars

C20_Witness ==
    /\ last.op = "updateConfig"
    /\ last.disables
    /\ ~config.enabled
    /\ config.intervalMinutes = 2
    /\ config.symbols # AllSymbols

\* C21: start() with enabled true begins exactly one update cycle, arms one
\* timer whose period is config.intervalMinutes as it is at the call, and
\* leaves the scheduler Running while that cycle is still fetching.
C21_StartBeginsCycleAndArms ==
    (last.op = "start" /\ config.enabled) =>
        /\ last.began = 1
        /\ Len(cycles) > 0
        /\ cycles[Len(cycles)] = [origin |-> "start", status |-> "fetching"]
        /\ isRunning
        /\ Cardinality(timers) = 1
        /\ \A t \in timers :
              /\ t.id = intervalId
              /\ t.period = config.intervalMinutes
              /\ t.due - t.period <= now
              /\ t.due >= now

C21_Witness ==
    /\ last.op = "start"
    /\ ~last.wasRunning
    /\ config.enabled
    /\ config.intervalMinutes = 2
    /\ isRunning
    /\ \E t \in timers : t.period = 2 /\ t.due = 2
    /\ cycles = <<[origin |-> "start", status |-> "fetching"]>>

C23_ManualUpdateKeepsTimer ==
    [][TriggerManualUpdate =>
          /\ cycles' = Append(cycles, [origin |-> "manual", status |-> "fetching"])
          /\ last'.began = 1
          /\ last'.stops = 0
          /\ timers' = timers
          /\ intervalId' = intervalId
          /\ config' = config]_vars

C23_Witness ==
    /\ last.op = "triggerManualUpdate"
    /\ last.wasRunning
    /\ isRunning
    /\ Cardinality(timers) = 1
    /\ cycles[Len(cycles)] = [origin |-> "manual", status |-> "fetching"]

\* the armed timers without their next expiry
Armed(tms) == {[id |-> t.id, period |-> t.period] : t \in tms}

\* C24: the end of an update cycle, whatever its outcome, leaves the timers
\* and intervalId as they were; and a timer tick begins one update cycle and
\* leaves the same timer armed with the same period.
C24_CyclesKeepTimer ==
    [][/\ (cycles' # cycles /\ last'.op = "cycle") =>
             (timers' = timers /\ intervalId' = intervalId)
       /\ (cycles' # cycles /\ last'.op = "tick") =>
             /\ Len(cycles') = Len(cycles) + 1
             /\ cycles'[Len(cycles')] = [origin |-> "tick", status |-> "fetching"]
             /\ Armed(timers') = Armed(timers)
             /\ intervalId' = intervalId
             /\ \A t \in timers' : t.due > now]_vars

C24_Witness ==
    /\ last.op = "tick"
    /\ isRunning
    /\ Len(cycles) = 2
    /\ cycles[1] = [origin |-> "start", status |-> "done"]
    /\ cycles[2] = [origin |-> "tick", status |-> "fetching"]
    /\ config.symbols = AllSymbols
    /\ \A s \in Symbols : previousPrices[s] = Null

\* C25: every update cycle that has begun ends, also when stop() or
\* updateConfig({enabled: false}) is called while it is in flight; a cycle
\* that has ended stays ended, and no cycle is ever dropped.
C25_CyclesRunToCompletion ==
    /\ []<>(\A c \in 1..Len(cycles) : cycles[c].status = "done")
    /\ [][/\ Len(cycles') >= Len(cycles)
          /\ \A c \in 1..Len(cycles) :
                /\ cycles'[c].origin = cycles[c].origin
                /\ cycles'[c].status \in {cycles[c].status, "done"}
                /\ cycles[c].status = "done" => cycles'[c].status = "done"]_vars

C25_Witness ==
    /\ last.op = "cycle"
    /\ last.origin \in {"start", "tick"}
    /\ ~isRunning
    /\ timers = {}
    /\ \A c \in 1..Len(cycles) : cycles[c].status = "done"

\* the update cycles in flight
InFlight == {c \in 1..Len(cycles) : cycles[c].status = "fetching"}

\* C26: while an update cycle is in flight, a manual trigger and a timer
\* tick each put one more cycle in flight, and the end of a cycle that has
\* data passes its price message to the callback and leaves the other
\* cycles in flight.
C26_CyclesNotSerialized ==
    [][InFlight # {} =>
          /\ (TriggerManualUpdate \/ Tick) => InFlight' = InFlight \cup {Len(cycles) + 1}
          /\ (cycles' # cycles /\ last'.op = "cycle") =>
                /\ \E c \in InFlight : InFlight' = InFlight \ {c}
                /\ last'.status # "skipped" =>
                      (Len(emitted') >= 1 /\ emitted'[1].hasPriceData)]_vars

C26_Witness ==
    /\ last.op = "cycle"
    /\ last.origin = "start"
    /\ last.status = "sent"
    /\ Len(emitted) = 1
    /\ \E c \in InFlight : cycles[c].origin = "tick"

\* the priceData entries for symbol s in the price messages of a list
EntriesOf(messages, s) ==
    UNION {{messages[m].priceData[k] :
               k \in {j \in 1..Len(messages[m].priceData) :
                         messages[m].priceData[j].symbol = s}} :
           m \in {i \in 1..Len(messages) : messages[i].hasPriceData}}

\* C27: the previous-price map starts without entries; the end of an update
\* cycle that passes a price message to the callback sets the entry of
\* every symbol in that message to the message's PriceData for it, and
\* every other step, and every other symbol, keeps the entry: so the entry
\* of a symbol is the PriceData of the latest price message that held it,
\* and is never removed.
C27_MapHoldsLatestMessage ==
    /\ \A s \in Symbols : previousPrices[s] = Null
    /\ [][\A s \in Symbols :
             LET new == IF cycles' # cycles /\ last'.op = "cycle"
                        THEN EntriesOf(emitted', s) ELSE {}
             IN  IF new = {} THEN previousPrices'[s] = previousPrices[s]
                 ELSE new = {previousPrices'[s]}]_vars

C27_Witness ==
    /\ last.op = "cycle"
    /\ last.status = "sent"
    /\ config.symbols # AllSymbols
    /\ previousPrices["ETH/USD"] # Null
    /\ previousPrices["ETH/USD"].timestamp = 0
    /\ previousPrices["BTC/USD"].timestamp = 1000
    /\ EntriesOf(emitted, "BTC/USD") = {previousPrices["BTC/USD"]}

\* the list getAllPrices returned has an entry for symbol s
Has(s) == \E i \in 1..Len(allPrices) : allPrices[i].symbol = s

\* the price of that entry
PriceOf(s) == allPrices[CHOOSE i \in 1..Len(allPrices) : allPrices[i].symbol = s].price

\* r is p / q, for prices p and q read from a feed
IsQuotient(r, p, q) ==
    IF q.n # 0 THEN r.kind = "num" /\ r.n * q.n * p.d = p.n * r.d * q.d
    ELSE IF p.n # 0 THEN r = Infinity
    ELSE r = NaN

\* the reads the derived fetch of symbol made saw the rounds the direct
\* fetches of its two constituents saw
SameRounds(symbol) ==
    /\ reads[<<symbol, NumeratorSymbol(symbol)>>] =
          reads[<<NumeratorSymbol(symbol), NumeratorSymbol(symbol)>>]
    /\ reads[<<symbol, DenominatorSymbol(symbol)>>] =
          reads[<<DenominatorSymbol(symbol), DenominatorSymbol(symbol)>>]

\* a derived symbol and its two constituents are all in the returned list
AllThree(symbol) ==
    Has(symbol) /\ Has(NumeratorSymbol(symbol)) /\ Has(DenominatorSymbol(symbol))

\* C28, as stated: in a list getAllPrices returned that holds a derived
\* symbol and both its constituents, the derived price is the quotient of
\* the two constituent prices of that list.
C28_RatioWithinResult ==
    fpc = "done" =>
        \A symbol \in DerivedSymbols :
            AllThree(symbol) =>
                IsQuotient(PriceOf(symbol), PriceOf(NumeratorSymbol(symbol)),
                           PriceOf(DenominatorSymbol(symbol)))

\* C28, amended: the same, when the reads of the derived fetch saw the same
\* rounds as the reads of the direct fetches.
C28_RatioWhenSameRounds ==
    fpc = "done" =>
        \A symbol \in {s \in DerivedSymbols : NumeratorSymbol(s) \in DirectSymbols} :
            (AllThree(symbol) /\ SameRounds(symbol)) =>
                IsQuotient(PriceOf(symbol), PriceOf(NumeratorSymbol(symbol)),
                           PriceOf(DenominatorSymbol(symbol)))

C28_Witness ==
    /\ fpc = "done"
    /\ updates > 0
    /\ AllThree("BTC/ETH")
    /\ SameRounds("BTC/ETH")
    /\ reads[<<"BNB/ETH", "ETH/USD">>] # reads[<<"ETH/USD", "ETH/USD">>]
    /\ PriceOf("BTC/USD") = Num(2, 1)
    /\ PriceOf("ETH/USD") = Num(1, 10)
    /\ PriceOf("BTC/ETH") = Num(20, 1)

\* C29: every priceData entry of every message an update cycle passes to
\* the callback is of one of BTC/USD, ETH/USD, BTC/ETH and BNB/ETH, and of a
\* symbol in config.symbols as it is when the cycle ends; BNB/USD is never
\* among them.
C29_EmittedSymbolsConfiguredAndCanonical ==
    last.op = "cycle" =>
        \A m \in 1..Len(emitted) :
            \A k \in 1..Len(emitted[m].priceData) :
                LET symbol == emitted[m].priceData[k].symbol
                IN  /\ symbol \in {"BTC/USD", "ETH/USD", "BTC/ETH", "BNB/ETH"}
                    /\ \E i \in 1..Len(config.symbols) : config.symbols[i] = symbol
                    /\ symbol # "BNB/USD"

C29_Witness ==
    /\ last.op = "cycle"
    /\ last.origin = "manual"
    /\ \E i \in 1..Len(config.symbols) : config.symbols[i] = "BNB/USD"
    /\ Len(emitted) = 1
    /\ [k \in 1..Len(emitted[1].priceData) |-> emitted[1].priceData[k].symbol] =
          <<"BTC/USD", "BTC/ETH">>
    /\ previousPrices["BNB/ETH"] # Null

=============================================================================
